---------------------------- MODULE Spec2Model ----------------------------
(***************************************************************************)
(* Wayfarer: the segment-buffering scheduler of src/App.tsx, the audio     *)
(* player of src/components/StoryPlayer.tsx and the remote-call wrappers   *)
(* of src/services/geminiService.ts, as a state machine.                   *)
(*                                                                         *)
(* Handlers run to completion (JavaScript's event loop); an await splits a *)
(* handler into steps.  React renders after a handler and runs the effects *)
(* whose dependencies changed before the next event is handled: RunEffects *)
(* is that pass, and every other action waits for it (Dirty).              *)
(***************************************************************************)
EXTENDS Integers, Sequences, FiniteSets, TLC

\* ------------------------------------------------------------- bounds
MaxSubmits == 2      \* routes submitted in one run (each gets a fresh id)
MaxTasks == 5        \* async invocations alive at once (never binding, see TaskSlotFree)
MaxOrphans == 1      \* the count of abandoned remote calls saturates here
MaxPlays == 2        \* playSegment calls suspended on resume() at once
MaxWtTime == 3       \* how long the clock of a withTimeout call is followed
MaxWtDelay == 2      \* the longest ms handed to withTimeout
MaxOutlineLen == 4   \* the longest array the outline call answers with
MaxOutlineTotal == 3 \* the largest totalSegments asked of generateStoryOutline
MaxApIndex == 4      \* the largest segment index handed to the setStory updater
MaxTextLen == 3      \* the longest text the segment call answers with, in characters
MaxSgIndex == 3      \* the largest segmentIndex handed to generateSegment

\* -------------------------------------------------- program constants
PLANNING == 0
GENERATING_INITIAL_SEGMENT == 1
READY_TO_PLAY == 2
PLAYING == 3
TARGET_SEGMENT_DURATION_SEC == 45
BUFFER_AHEAD == 3
\* Time is counted in ticks of half a second: a clip lasts SEG_DURATION ticks
\* and the end-of-clip test allows END_SLACK ticks (0.5 s).
SEG_DURATION == 2
END_SLACK == 1

Null == <<>>
Some(x) == <<x>>
Val(o) == o[1]

\* The journeys the planner can hand over: 45 s gives a story of one segment,
\* 170 s one of four (one more than the buffer runs ahead).
Durations == {45, 170}

\* Error messages as word sequences; includes() is a search for a word.
Includes(msg, needle) == \E i \in 1..Len(msg) : msg[i] = needle

MSG_OUTLINE_TIMEOUT == <<"Story outline generation", "timed out">>
MSG_TEXT_TIMEOUT == <<"Initial text generation", "timed out">>
MSG_AUDIO_TIMEOUT == <<"Initial audio generation", "timed out">>
\* What the remote SDK may reject with: an Error whose message mentions a
\* timeout in either spelling, one that does not, and one with no message.
RemoteErrors == { <<"request", "timeout">>, <<"deadline", "timed out">>,
                  <<"Network", "error">>, <<>> }

ERR_GENERIC == "We couldn't start the story. Please check your route."
ERR_TIMED_OUT == "The journey is long, and our storytellers timed out. Try a shorter segment?"
NO_ERROR == "null"
ERR_API_KEY == "API Key is missing. Please check your environment configuration."

OUTLINE_PLACEHOLDER == "Continue the journey toward the destination."
UNDEFINED == "undefined"
\* A text is the sequence of its characters; the placeholder's characters are
\* written as one.
SEGMENT_PLACEHOLDER == <<"The journey continues...">>
Whitespace == {" "}

VARIABLES
  appState, route, story, generationError,
  isGeneratingRef, isBackgroundGenerating, currentPlayingIndex,
  tasks,      \* the async invocations that have not returned yet
  orphans,    \* remote calls still in flight whose withTimeout already rejected
  submits,    \* routes submitted so far
  rendered,   \* the dependencies of the buffering effect as of its last run
  last,       \* the handler step taken last (for stating the claims)
  isPlaying, currentSegmentIndex, isBuffering,
  audioCtx,   \* audioContextRef: "none", "suspended" or "running"
  sourceRef, indexRef, segmentOffsetRef,
  sinceStart, \* audioContext.currentTime - startTimeRef.current, in ticks, capped
  plays,      \* playSegment calls suspended on AudioContext.resume(), oldest first
  live,       \* audio sources started and neither stopped nor ended
  mapApiAvailable, scriptError,
  wt,         \* one withTimeout call, followed on its own (WtSpec)
  ol,         \* one generateStoryOutline call, followed on its own (OutlineSpec)
  ap,         \* one run of the setStory updater, followed on its own (AppendSpec)
  sg          \* one generateSegment call, followed on its own (SegmentSpec)

appVars == <<appState, route, story, generationError, isGeneratingRef,
             isBackgroundGenerating, currentPlayingIndex>>
playerVars == <<isPlaying, currentSegmentIndex, isBuffering, audioCtx,
                sourceRef, indexRef, segmentOffsetRef, sinceStart, plays, live>>
bootVars == <<mapApiAvailable, scriptError>>
mainVars == <<appVars, tasks, orphans, submits, rendered, last, playerVars, bootVars>>
unitVars == <<wt, ol, ap, sg>>
vars == <<mainVars, unitVars>>

\* ------------------------------------------------ geminiService.ts
CeilDiv(a, b) == (a + b - 1) \div b
Max(a, b) == IF a >= b THEN a ELSE b
Min(a, b) == IF a <= b THEN a ELSE b

calculateTotalSegments(durationSeconds) ==
  Max(1, CeilDiv(durationSeconds, TARGET_SEGMENT_DURATION_SEC))

RECURSIVE PadTo(_, _, _)
PadTo(outline, lastEntry, n) ==
  IF Len(outline) < n THEN PadTo(Append(outline, lastEntry), lastEntry, n)
  ELSE outline

\* A return without the final slice.
Slice_Whole(s, n) == s

\* outline.slice(0, n)
Slice(s, n) == SubSeq(s, 1, Min(n, Len(s)))

\* resp: what ai.models.generateContent did (arr is <<>> unless an array
\* came back).
\*   kind = "error"       the call rejected
\*   kind = "empty"       response.text missing or blank
\*   kind = "badjson"     JSON.parse threw
\*   kind = "nonarray"    valid JSON, not an array
\*   kind = "array"       the JSON array arr
generateStoryOutline(resp, totalSegments) ==
  IF resp.kind = "array"
  THEN LET lastEntry == IF Len(resp.arr) = 0 THEN UNDEFINED
                        ELSE resp.arr[Len(resp.arr)]
           outline == IF Len(resp.arr) < totalSegments
                      THEN PadTo(resp.arr, lastEntry, totalSegments)
                      ELSE resp.arr
       IN  Slice(outline, totalSegments)
  ELSE [i \in 1..totalSegments |-> OUTLINE_PLACEHOLDER]

\* ------------------------------------------------------------ App.tsx
NewStory(total, outline, seg) ==
  [totalSegmentsEstimate |-> total, outline |-> outline, segments |-> <<seg>>]

HasIndex(segs, index) == \E i \in 1..Len(segs) : segs[i].index = index

RECURSIVE InsertSorted(_, _)
InsertSorted(segs, seg) ==
  IF segs = <<>> THEN <<seg>>
  ELSE IF Head(segs).index <= seg.index
       THEN <<Head(segs)>> \o InsertSorted(Tail(segs), seg)
       ELSE <<seg>> \o segs

\* An updater that appends without looking for the index.
AppendSegment_Always(prev, seg, index) ==
  IF prev = Null THEN Null
  ELSE Some([Val(prev) EXCEPT !.segments = InsertSorted(@, seg)])

\* [...prev.segments, seg].sort((a, b) => a.index - b.index): the sort is
\* stable and prev.segments is already sorted, so seg goes after the last
\* segment whose index is not larger.
AppendSegment(prev, seg, index) ==
  IF prev = Null THEN Null
  ELSE IF HasIndex(Val(prev).segments, index) THEN prev
  ELSE Some([Val(prev) EXCEPT !.segments = InsertSorted(@, seg)])

UserMessage(msg) ==
  IF msg # <<>> /\ (Includes(msg, "timed out") \/ Includes(msg, "timeout"))
  THEN ERR_TIMED_OUT
  ELSE ERR_GENERIC

IsCompact == appState >= GENERATING_INITIAL_SEGMENT
AppIsPlaying == appState = READY_TO_PLAY \/ appState = PLAYING
Mounted == AppIsPlaying /\ story # Null /\ route # Null

FreeIds == (1..MaxTasks) \ {t.id : t \in tasks}
TaskSlotFree == FreeIds # {}
NewId == CHOOSE i \in FreeIds : \A j \in FreeIds : i <= j

Deps == [story |-> story, route |-> route, appState |-> appState,
         currentPlayingIndex |-> currentPlayingIndex]

\* The buffering-resume effect's test.
ResumeCond ==
  /\ isBuffering /\ isPlaying
  /\ currentSegmentIndex + 1 <= Len(Val(story).segments)
  /\ Val(story).segments[currentSegmentIndex + 1].audioBuffer

Dirty ==
  \/ Deps # rendered
  \/ /\ Mounted
     /\ \/ currentPlayingIndex # currentSegmentIndex
        \/ indexRef # currentSegmentIndex
        \/ ResumeCond

\* ------------------------------------------- App.tsx: withTimeout
\* What a promise settles with: a value or an error's message, both as word
\* sequences.
Fulfilled(v) == [kind |-> "fulfilled", payload |-> v]
Rejected(e) == [kind |-> "rejected", payload |-> e]

\* A race in which a later settlement replaces the earlier one.
RaceSettle_LastWins(w, outcome) ==
  [w EXCEPT !.race = Some(outcome), !.delivered = Append(@, outcome)]

\* Promise.race: the first of its promises to settle settles it and reaches
\* the awaiting caller; what settles later is dropped.
RaceSettle(w, outcome) ==
  IF w.race = Null
  THEN [w EXCEPT !.race = Some(outcome), !.delivered = Append(@, outcome)]
  ELSE w

\* String.prototype.trim: the text without its leading and trailing whitespace.
RECURSIVE TrimStart(_)
TrimStart(t) ==
  IF t = <<>> THEN <<>>
  ELSE IF Head(t) \in Whitespace THEN TrimStart(Tail(t)) ELSE t

RECURSIVE TrimEnd(_)
TrimEnd(t) ==
  IF t = <<>> THEN <<>>
  ELSE IF t[Len(t)] \in Whitespace THEN TrimEnd(SubSeq(t, 1, Len(t) - 1)) ELSE t

Trim(t) == TrimEnd(TrimStart(t))

\* A segment text that falls back to the placeholder before trimming.
SegmentText_TrimLast(text) ==
  IF text = Null \/ Val(text) = <<>> THEN SEGMENT_PLACEHOLDER ELSE Trim(Val(text))

\* response.text?.trim() || "The journey continues...": text is Null when the
\* response carries none; the empty string is the one falsy string.
SegmentText(text) ==
  LET trimmed == IF text = Null THEN Null ELSE Some(Trim(Val(text)))
  IN  IF trimmed = Null \/ Val(trimmed) = <<>> THEN SEGMENT_PLACEHOLDER
      ELSE Val(trimmed)

\* generateSegment, as the settlement of the promise it returns: the remote
\* call's error rethrown, or the segment built from its response.
generateSegment(resp, segmentIndex) ==
  IF resp.kind = "error"
  THEN Rejected(resp.error)
  ELSE Fulfilled([index |-> segmentIndex, text |-> SegmentText(resp.text),
                  audioBuffer |-> Null])

\* The state of a call that has not been made.
WtIdle == [ms |-> 0, errorMsg |-> <<>>, promise |-> "pending", timer |-> "none",
           now |-> 0, race |-> Null, events |-> <<>>, delivered |-> <<>>]

\* withTimeout(promise, ms, errorMsg) up to its return: the timer is armed
\* and the race is pending.
withTimeout(ms, errorMsg) ==
  [WtIdle EXCEPT !.ms = ms, !.errorMsg = errorMsg, !.timer = "armed"]

\* ----------------------------------------------------- StoryPlayer.tsx
Cap(x) == Min(x, SEG_DURATION)

\* story.segments[i] with i counted from 0; Null is JavaScript's undefined.
SegAt(st, i) == IF i + 1 <= Len(st.segments) THEN Some(st.segments[i + 1]) ELSE Null
HasAudio(seg) == seg # Null /\ Val(seg).audioBuffer

\* The player's state as one record, so that the handlers compose.
Player == [isPlaying |-> isPlaying, currentSegmentIndex |-> currentSegmentIndex,
           isBuffering |-> isBuffering, audioCtx |-> audioCtx,
           sourceRef |-> sourceRef, segmentOffsetRef |-> segmentOffsetRef,
           sinceStart |-> sinceStart, plays |-> plays, live |-> live]

InitialPlayer == [isPlaying |-> FALSE, currentSegmentIndex |-> 0,
                  isBuffering |-> FALSE, audioCtx |-> "none",
                  sourceRef |-> 0, segmentOffsetRef |-> 0,
                  sinceStart |-> 0, plays |-> <<>>, live |-> {}]

SetPlayer(P) ==
  /\ isPlaying' = P.isPlaying
  /\ currentSegmentIndex' = P.currentSegmentIndex
  /\ isBuffering' = P.isBuffering
  /\ audioCtx' = P.audioCtx
  /\ sourceRef' = P.sourceRef
  /\ segmentOffsetRef' = P.segmentOffsetRef
  /\ sinceStart' = P.sinceStart
  /\ plays' = P.plays
  /\ live' = P.live

\* The closure of one render: what handleSegmentEnd reads when a clip that
\* was started from this render ends.
Closure == [story |-> Val(story), bg |-> isBackgroundGenerating]

stopAudio(P) ==
  IF P.sourceRef # 0
  THEN [P EXCEPT !.live = {s \in @ : s.sid # P.sourceRef}, !.sourceRef = 0]
  ELSE P

FreshSid(P) ==
  CHOOSE i \in 1..(Cardinality(P.live) + 1) : i \notin {s.sid : s \in P.live}

\* A playSegment that sets startTimeRef to currentTime, the offset forgotten.
StartSource_ClockFromNow(P, seg, offset, cl) ==
  LET Q == stopAudio(P)
      sid == FreshSid(Q)
  IN  [Q EXCEPT !.sourceRef = sid,
                !.live = @ \cup {[sid |-> sid, seg |-> seg, pos |-> Cap(offset),
                                  from |-> Cap(offset), cl |-> cl]},
                !.sinceStart = 0]

\* A playSegment that starts the new source without stopping the old one.
StartSource_NoStop(P, seg, offset, cl) ==
  LET sid == FreshSid(P)
  IN  [P EXCEPT !.sourceRef = sid,
                !.live = @ \cup {[sid |-> sid, seg |-> seg, pos |-> Cap(offset),
                                  from |-> Cap(offset), cl |-> cl]},
                !.sinceStart = Cap(offset)]

\* playSegment from stopAudio() on: the part after the await.
StartSource(P, seg, offset, cl) ==
  LET Q == stopAudio(P)
      sid == FreshSid(Q)
  IN  [Q EXCEPT !.sourceRef = sid,
                !.live = @ \cup {[sid |-> sid, seg |-> seg, pos |-> Cap(offset),
                                  from |-> Cap(offset), cl |-> cl]},
                !.sinceStart = Cap(offset)]

\* susp: whether a context created here starts out suspended (the browser's
\* autoplay policy decides).
playSegment(P, seg, offset, cl, susp) ==
  IF ~HasAudio(seg) THEN [P EXCEPT !.isBuffering = TRUE]
  ELSE LET ctx == IF P.audioCtx = "none"
                  THEN (IF susp THEN "suspended" ELSE "running")
                  ELSE P.audioCtx
           Q == [P EXCEPT !.audioCtx = ctx]
       IN  IF ctx = "suspended"
           THEN [Q EXCEPT !.plays = Append(@, [seg |-> Val(seg), offset |-> offset,
                                               cl |-> cl])]
           ELSE StartSource(Q, Val(seg), offset, cl)

handleSegmentEnd(P, cl, idx, susp) ==
  LET nextIndex == idx + 1
      Q == [P EXCEPT !.currentSegmentIndex = nextIndex, !.segmentOffsetRef = 0]
      nxt == SegAt(cl.story, nextIndex)
  IN  IF HasAudio(nxt) THEN playSegment(Q, nxt, 0, cl, susp)
      ELSE IF nextIndex >= cl.story.totalSegmentsEstimate /\ ~cl.bg
           THEN [Q EXCEPT !.isPlaying = FALSE]
           ELSE [Q EXCEPT !.isBuffering = TRUE]

togglePlayback(P, cl, susp) ==
  IF P.isPlaying
  THEN LET Q == IF P.audioCtx # "none" /\ ~P.isBuffering
                THEN [P EXCEPT !.segmentOffsetRef = P.sinceStart]
                ELSE P
       IN  [stopAudio(Q) EXCEPT !.isPlaying = FALSE]
  ELSE LET Q == [P EXCEPT !.isPlaying = TRUE]
           cur == SegAt(cl.story, P.currentSegmentIndex)
       IN  IF HasAudio(cur)
           THEN playSegment([Q EXCEPT !.isBuffering = FALSE], cur,
                            P.segmentOffsetRef, cl, susp)
           ELSE [Q EXCEPT !.isBuffering = TRUE]

\* A resume effect that starts the clip and leaves the buffering flag set.
bufferingResume_KeepsFlag(P, st, cl, susp) ==
  playSegment(P, SegAt(st, P.currentSegmentIndex), 0, cl, susp)

\* The body of the buffering-resume effect, its test (ResumeCond) passed.
bufferingResume(P, st, cl, susp) ==
  playSegment([P EXCEPT !.isBuffering = FALSE], SegAt(st, P.currentSegmentIndex),
              0, cl, susp)

\* The player is rendered only while Mounted; unmounting runs the cleanup
\* (stopAudio, close the context) and drops its state.
PlayerFollows ==
  IF Mounted' THEN UNCHANGED playerVars
  ELSE SetPlayer(InitialPlayer) /\ indexRef' = 0


\* ------------------------------------------------------------ actions
Did(op, arg) == last' = [op |-> op, arg |-> arg]

\* What the remote call answers to the outline prompt in a run of the app.
OutlineResponses == {[kind |-> "array", arr |-> <<"beat">>]}

\* generateSegment's result with the audio decoded for it: the segment says
\* which route's journey its text narrates.
Segment(index, rid) == [index |-> index, rid |-> rid, audioBuffer |-> TRUE]

TimeoutMsg(pc) ==
  CASE pc = "outline" -> MSG_OUTLINE_TIMEOUT
    [] pc = "text" -> MSG_TEXT_TIMEOUT
    [] pc = "audio" -> MSG_AUDIO_TIMEOUT

Abandon == orphans' = Min(orphans + 1, MaxOrphans)

\* The call sites' inputs for the two calls followed on their own.
WtValues == {<<"outline">>, <<"segment">>}
WtDelays == 1..MaxWtDelay
WtMessages == {MSG_OUTLINE_TIMEOUT, MSG_TEXT_TIMEOUT, MSG_AUDIO_TIMEOUT}

OlIdle == [phase |-> "idle", totalSegments |-> 0,
           resp |-> [kind |-> "error", arr |-> <<>>], result |-> <<>>]

ApIdle == [phase |-> "idle", prev |-> Null, seg |-> <<>>, result |-> Null]

SgIdle == [phase |-> "idle", segmentIndex |-> 0,
           resp |-> [kind |-> "error", error |-> <<>>, text |-> Null], result |-> Null]

MainInit ==
  /\ appState = PLANNING
  /\ route = Null
  /\ story = Null
  /\ generationError = NO_ERROR
  /\ isGeneratingRef = FALSE
  /\ isBackgroundGenerating = FALSE
  /\ currentPlayingIndex = 0
  /\ tasks = {}
  /\ orphans = 0
  /\ submits = 0
  /\ rendered = [story |-> Null, route |-> Null, appState |-> PLANNING,
                 currentPlayingIndex |-> 0]
  /\ last = [op |-> "init", arg |-> <<>>]
  /\ isPlaying = FALSE
  /\ currentSegmentIndex = 0
  /\ isBuffering = FALSE
  /\ audioCtx = "none"
  /\ sourceRef = 0
  /\ indexRef = 0
  /\ segmentOffsetRef = 0
  /\ sinceStart = 0
  /\ plays = <<>>
  /\ live = {}
  /\ mapApiAvailable = TRUE
  /\ scriptError \in {NO_ERROR, ERR_API_KEY}

Init == MainInit /\ wt = WtIdle /\ ol = OlIdle /\ ap = ApIdle /\ sg = SgIdle

\* RoutePlanner hands a route over (onRouteFound): handleGenerateStory up to
\* its first await.
HandleGenerateStory(d) ==
  /\ ~Dirty
  /\ scriptError = NO_ERROR
  /\ ~IsCompact
  /\ submits < MaxSubmits
  /\ TaskSlotFree
  /\ LET details == [id |-> submits + 1, durationSeconds |-> d]
     IN  /\ route' = Some(details)
         /\ tasks' = tasks \cup
               {[id |-> NewId, kind |-> "HGS", pc |-> "outline", details |-> details,
                 total |-> calculateTotalSegments(d), outline |-> <<>>]}
         /\ Did("handleGenerateStory", <<>>)
  /\ generationError' = NO_ERROR
  /\ appState' = GENERATING_INITIAL_SEGMENT
  /\ submits' = submits + 1
  /\ UNCHANGED <<story, isGeneratingRef, isBackgroundGenerating,
                 currentPlayingIndex, orphans, rendered>>
  /\ PlayerFollows
  /\ UNCHANGED <<bootVars, unitVars>>

HGS_OutlineDone(t, resp) ==
  /\ ~Dirty
  /\ t \in tasks /\ t.kind = "HGS" /\ t.pc = "outline"
  /\ tasks' = (tasks \ {t}) \cup
        {[t EXCEPT !.pc = "text", !.outline = generateStoryOutline(resp, t.total)]}
  /\ Did("HGS_OutlineDone", <<>>)
  /\ UNCHANGED <<appVars, orphans, submits, rendered, playerVars>>
  /\ UNCHANGED <<bootVars, unitVars>>

HGS_TextDone(t) ==
  /\ ~Dirty
  /\ t \in tasks /\ t.kind = "HGS" /\ t.pc = "text"
  /\ tasks' = (tasks \ {t}) \cup {[t EXCEPT !.pc = "audio"]}
  /\ Did("HGS_TextDone", <<>>)
  /\ UNCHANGED <<appVars, orphans, submits, rendered, playerVars>>
  /\ UNCHANGED <<bootVars, unitVars>>

HGS_AudioDone(t) ==
  /\ ~Dirty
  /\ t \in tasks /\ t.kind = "HGS" /\ t.pc = "audio"
  /\ tasks' = tasks \ {t}
  /\ story' = Some(NewStory(t.total, t.outline, Segment(1, t.details.id)))
  /\ appState' = READY_TO_PLAY
  /\ Did("HGS_AudioDone", <<>>)
  /\ UNCHANGED <<route, generationError, isGeneratingRef, isBackgroundGenerating,
                 currentPlayingIndex, orphans, submits, rendered>>
  /\ PlayerFollows
  /\ UNCHANGED <<bootVars, unitVars>>

\* The catch block of handleGenerateStory.
HGS_Catch(t, msg) ==
  /\ tasks' = tasks \ {t}
  /\ appState' = PLANNING
  /\ generationError' = UserMessage(msg)
  /\ Did("HGS_Catch", <<msg>>)
  /\ UNCHANGED <<route, story, isGeneratingRef, isBackgroundGenerating,
                 currentPlayingIndex, submits, rendered>>
  /\ PlayerFollows
  /\ UNCHANGED <<bootVars, unitVars>>

\* generateSegment or generateSegmentAudio rejects (generateStoryOutline
\* catches its own errors and never does).
HGS_Reject(t, msg) ==
  /\ ~Dirty
  /\ t \in tasks /\ t.kind = "HGS" /\ t.pc \in {"text", "audio"}
  /\ HGS_Catch(t, msg)
  /\ UNCHANGED orphans

\* withTimeout's timer fires first: the remote call stays in flight.
HGS_Timeout(t) ==
  /\ ~Dirty
  /\ t \in tasks /\ t.kind = "HGS"
  /\ HGS_Catch(t, TimeoutMsg(t.pc))
  /\ Abandon

\* A scheduler that does not stop at the estimated total.
ShouldGenerate_PastTotal ==
  /\ story # Null /\ route # Null /\ appState >= READY_TO_PLAY
  /\ Len(Val(story).segments) < currentPlayingIndex + BUFFER_AHEAD
  /\ ~isGeneratingRef

\* A scheduler that looks one segment less far ahead.
ShouldGenerate_Lazy ==
  /\ story # Null /\ route # Null /\ appState >= READY_TO_PLAY
  /\ Len(Val(story).segments) < currentPlayingIndex + BUFFER_AHEAD - 1
  /\ Len(Val(story).segments) < Val(story).totalSegmentsEstimate
  /\ ~isGeneratingRef

\* The effect's test and generateNextSegment's own guard.
ShouldGenerate ==
  /\ story # Null /\ route # Null /\ appState >= READY_TO_PLAY
  /\ Len(Val(story).segments) < currentPlayingIndex + BUFFER_AHEAD
  /\ Len(Val(story).segments) < Val(story).totalSegmentsEstimate
  /\ ~isGeneratingRef

NewGeneration ==
  [id |-> NewId, kind |-> "GNS", pc |-> "text", index |-> Len(Val(story).segments) + 1,
   route |-> Val(route), story |-> Val(story)]

\* One commit's effects: the player's (indexRef, onSegmentChange, the
\* buffering resume), then the App's buffering engine, which starts
\* generateNextSegment up to its first await.
RunEffects(susp) ==
  /\ Dirty
  /\ IF Mounted
     THEN /\ indexRef' = currentSegmentIndex
          /\ currentPlayingIndex' = currentSegmentIndex
          /\ IF ResumeCond
             THEN SetPlayer(bufferingResume(Player, Val(story), Closure, susp))
             ELSE UNCHANGED <<isPlaying, currentSegmentIndex, isBuffering, audioCtx,
                              sourceRef, segmentOffsetRef, sinceStart, plays, live>>
     ELSE UNCHANGED <<playerVars, currentPlayingIndex>>
  /\ IF Deps # rendered /\ ShouldGenerate /\ TaskSlotFree
     THEN /\ isGeneratingRef' = TRUE
          /\ isBackgroundGenerating' = TRUE
          /\ tasks' = tasks \cup {NewGeneration}
          /\ Did("RunEffects", <<"generateNextSegment">>)
     ELSE /\ UNCHANGED <<isGeneratingRef, isBackgroundGenerating, tasks>>
          /\ Did("RunEffects", <<>>)
  /\ rendered' = Deps
  /\ UNCHANGED <<appState, route, story, generationError, orphans, submits>>
  /\ UNCHANGED <<bootVars, unitVars>>

GNS_TextDone(t) ==
  /\ ~Dirty
  /\ t \in tasks /\ t.kind = "GNS" /\ t.pc = "text"
  /\ tasks' = (tasks \ {t}) \cup {[t EXCEPT !.pc = "audio"]}
  /\ Did("GNS_TextDone", <<>>)
  /\ UNCHANGED <<appVars, orphans, submits, rendered, playerVars>>
  /\ UNCHANGED <<bootVars, unitVars>>

\* A finally block that releases the guard and leaves the spinner on.
GNS_Finally_KeepsSpinner ==
  /\ isGeneratingRef' = FALSE
  /\ UNCHANGED isBackgroundGenerating

\* The finally block of generateNextSegment.
GNS_Finally ==
  /\ isGeneratingRef' = FALSE
  /\ isBackgroundGenerating' = FALSE

GNS_AudioDone(t) ==
  /\ ~Dirty
  /\ t \in tasks /\ t.kind = "GNS" /\ t.pc = "audio"
  /\ tasks' = tasks \ {t}
  /\ story' = AppendSegment(story, Segment(t.index, t.route.id), t.index)
  /\ GNS_Finally
  /\ Did("GNS_AudioDone", <<>>)
  /\ UNCHANGED <<appState, route, generationError, currentPlayingIndex, orphans,
                 submits, rendered>>
  /\ PlayerFollows
  /\ UNCHANGED <<bootVars, unitVars>>

GNS_Catch(t) ==
  /\ tasks' = tasks \ {t}
  /\ GNS_Finally
  /\ UNCHANGED <<appState, route, story, generationError, currentPlayingIndex,
                 submits, rendered, playerVars>>
  /\ UNCHANGED <<bootVars, unitVars>>

GNS_Reject(t) ==
  /\ ~Dirty
  /\ t \in tasks /\ t.kind = "GNS"
  /\ GNS_Catch(t)
  /\ Did("GNS_Reject", <<>>)
  /\ UNCHANGED orphans

GNS_Timeout(t) ==
  /\ ~Dirty
  /\ t \in tasks /\ t.kind = "GNS"
  /\ GNS_Catch(t)
  /\ Did("GNS_Timeout", <<>>)
  /\ Abandon

\* A reset that leaves the buffering engine's position where it was.
HandleReset_KeepsIndex ==
  /\ ~Dirty
  /\ IsCompact
  /\ appState' = PLANNING
  /\ route' = Null
  /\ story' = Null
  /\ generationError' = NO_ERROR
  /\ isGeneratingRef' = FALSE
  /\ isBackgroundGenerating' = FALSE
  /\ Did("handleReset", <<>>)
  /\ UNCHANGED <<currentPlayingIndex, tasks, orphans, submits, rendered>>
  /\ PlayerFollows
  /\ UNCHANGED <<bootVars, unitVars>>

\* The End Journey button of the compact planner.
HandleReset ==
  /\ ~Dirty
  /\ IsCompact
  /\ appState' = PLANNING
  /\ route' = Null
  /\ story' = Null
  /\ currentPlayingIndex' = 0
  /\ generationError' = NO_ERROR
  /\ isGeneratingRef' = FALSE
  /\ isBackgroundGenerating' = FALSE
  /\ Did("handleReset", <<>>)
  /\ UNCHANGED <<tasks, orphans, submits, rendered>>
  /\ PlayerFollows
  /\ UNCHANGED <<bootVars, unitVars>>

\* An abandoned remote call settles; nobody listens.
OrphanSettles ==
  /\ ~Dirty
  /\ orphans > 0
  /\ orphans' = orphans - 1
  /\ Did("OrphanSettles", <<>>)
  /\ UNCHANGED <<appVars, tasks, submits, rendered, playerVars>>
  /\ UNCHANGED <<bootVars, unitVars>>

TogglePlayback(susp) ==
  /\ ~Dirty
  /\ Mounted
  /\ Len(togglePlayback(Player, Closure, susp).plays) <= MaxPlays
  /\ SetPlayer(togglePlayback(Player, Closure, susp))
  /\ Did("togglePlayback", <<>>)
  /\ UNCHANGED <<appVars, tasks, orphans, submits, rendered, indexRef>>
  /\ UNCHANGED <<bootVars, unitVars>>

\* The continuations of the playSegment calls suspended on resume(), oldest
\* first: the context resolves every pending resume() promise in one task,
\* and the continuations run back to back as microtasks.
RECURSIVE ResumeAll(_)
ResumeAll(P) ==
  IF P.plays = <<>> THEN P
  ELSE LET p == Head(P.plays)
       IN  ResumeAll(StartSource([P EXCEPT !.plays = Tail(@)], p.seg, p.offset, p.cl))

\* The suspended context starts running.
PlayResumes ==
  /\ ~Dirty
  /\ plays # <<>>
  /\ SetPlayer(ResumeAll([Player EXCEPT !.audioCtx = "running"]))
  /\ Did("PlayResumes", IF Len(plays) > 1 THEN <<"overlapping">> ELSE <<>>)
  /\ UNCHANGED <<appVars, tasks, orphans, submits, rendered, indexRef>>
  /\ UNCHANGED <<bootVars, unitVars>>

EndPending == \E s \in live : s.pos >= SEG_DURATION

\* Half a second of the running context's clock.
Tick ==
  /\ ~Dirty
  /\ audioCtx = "running"
  /\ ~EndPending
  /\ sinceStart' = Cap(sinceStart + 1)
  /\ live' = {[s EXCEPT !.pos = @ + 1] : s \in live}
  /\ Did("Tick", <<>>)
  /\ UNCHANGED <<appVars, tasks, orphans, submits, rendered, isPlaying,
                 currentSegmentIndex, isBuffering, audioCtx, sourceRef, indexRef,
                 segmentOffsetRef, plays>>
  /\ UNCHANGED <<bootVars, unitVars>>

\* A clip reaches its end: source.onended.
SourceEnded(s, susp) ==
  /\ ~Dirty
  /\ s \in live /\ s.pos >= SEG_DURATION
  /\ LET P == [Player EXCEPT !.live = @ \ {s}]
     IN  IF sinceStart >= SEG_DURATION - END_SLACK
         THEN SetPlayer(handleSegmentEnd(P, s.cl, indexRef, susp))
         ELSE SetPlayer(P)
  /\ Did("onended", <<>>)
  /\ UNCHANGED <<appVars, tasks, orphans, submits, rendered, indexRef>>
  /\ UNCHANGED <<bootVars, unitVars>>

\* The Maps script fails to load, fails to authenticate or is not there
\* after three seconds (the bootstrap effect returned early if the key is
\* missing).
MapsUnavailable ==
  /\ ~Dirty
  /\ scriptError = NO_ERROR /\ mapApiAvailable
  /\ mapApiAvailable' = FALSE
  /\ Did("MapsUnavailable", <<>>)
  /\ UNCHANGED <<appVars, tasks, orphans, submits, rendered, playerVars, scriptError,
                 unitVars>>

Next ==
  \/ \E d \in Durations : HandleGenerateStory(d)
  \/ \E t \in tasks, resp \in OutlineResponses : HGS_OutlineDone(t, resp)
  \/ \E t \in tasks : HGS_TextDone(t)
  \/ \E t \in tasks : HGS_AudioDone(t)
  \/ \E t \in tasks, msg \in RemoteErrors : HGS_Reject(t, msg)
  \/ \E t \in tasks : HGS_Timeout(t)
  \/ \E susp \in BOOLEAN : RunEffects(susp)
  \/ \E t \in tasks : GNS_TextDone(t)
  \/ \E t \in tasks : GNS_AudioDone(t)
  \/ \E t \in tasks : GNS_Reject(t)
  \/ \E t \in tasks : GNS_Timeout(t)
  \/ HandleReset
  \/ OrphanSettles
  \/ \E susp \in BOOLEAN : TogglePlayback(susp)
  \/ PlayResumes
  \/ Tick
  \/ \E s \in live, susp \in BOOLEAN : SourceEnded(s, susp)
  \/ MapsUnavailable

Spec == Init /\ [][Next]_vars

\* ------------------------------------------- one withTimeout call
\* The promise handed to withTimeout fulfils: the then-callback clears the
\* timer and passes the value on to the race.
WT_PromiseFulfils(v) ==
  /\ wt.timer # "none" /\ wt.promise = "pending"
  /\ wt' = RaceSettle([wt EXCEPT !.promise = "fulfilled",
                                 !.timer = IF @ = "armed" THEN "cleared" ELSE @,
                                 !.events = Append(@, Fulfilled(v))],
                      Fulfilled(v))
  /\ UNCHANGED <<mainVars, ol, ap, sg>>

\* It rejects: the then-callback is skipped (the timer stays armed) and the
\* rejection reaches the race.
WT_PromiseRejects(e) ==
  /\ wt.timer # "none" /\ wt.promise = "pending"
  /\ wt' = RaceSettle([wt EXCEPT !.promise = "rejected",
                                 !.events = Append(@, Rejected(e))],
                      Rejected(e))
  /\ UNCHANGED <<mainVars, ol, ap, sg>>

\* The timer's callback runs, no sooner than ms after the call.
WT_TimerFires ==
  /\ wt.timer = "armed" /\ wt.now >= wt.ms
  /\ wt' = RaceSettle([wt EXCEPT !.timer = "fired",
                                 !.events = Append(@, [kind |-> "timeout",
                                                       payload |-> wt.errorMsg])],
                      Rejected(wt.errorMsg))
  /\ UNCHANGED <<mainVars, ol, ap, sg>>

WT_Tick ==
  /\ wt.timer # "none" /\ wt.now < MaxWtTime
  /\ wt' = [wt EXCEPT !.now = @ + 1]
  /\ UNCHANGED <<mainVars, ol, ap, sg>>

WtInit ==
  /\ MainInit /\ ol = OlIdle /\ ap = ApIdle /\ sg = SgIdle
  /\ \E ms \in WtDelays, errorMsg \in WtMessages : wt = withTimeout(ms, errorMsg)

WtNext ==
  \/ \E v \in WtValues : WT_PromiseFulfils(v)
  \/ \E e \in RemoteErrors : WT_PromiseRejects(e)
  \/ WT_TimerFires
  \/ WT_Tick

WtSpec == WtInit /\ [][WtNext]_vars

\* ---------------------------------- one generateStoryOutline call
SeqsUpTo(S, n) == UNION {[1..k -> S] : k \in 0..n}

\* Everything the remote call can do to an outline request.
OutlineOutcomes ==
  {[kind |-> k, arr |-> <<>>] : k \in {"error", "empty", "badjson", "nonarray"}}
    \cup {[kind |-> "array", arr |-> a] : a \in SeqsUpTo({"a", "b"}, MaxOutlineLen)}

OL_Returns ==
  /\ ol.phase = "called"
  /\ ol' = [ol EXCEPT !.phase = "returned",
                      !.result = generateStoryOutline(ol.resp, ol.totalSegments)]
  /\ UNCHANGED <<mainVars, wt, ap, sg>>

OutlineInit ==
  /\ MainInit /\ wt = WtIdle /\ ap = ApIdle /\ sg = SgIdle
  /\ \E n \in 1..MaxOutlineTotal, resp \in OutlineOutcomes :
        ol = [phase |-> "called", totalSegments |-> n, resp |-> resp, result |-> <<>>]

OutlineNext == OL_Returns

OutlineSpec == OutlineInit /\ [][OutlineNext]_vars

\* ------------------------------------- one run of the setStory updater
RECURSIVE SortedSeq(_)
SortedSeq(S) ==
  IF S = {} THEN <<>>
  ELSE LET m == CHOOSE x \in S : \A y \in S : x <= y
       IN  <<m>> \o SortedSeq(S \ {m})

\* The stories the updater can meet: null, or at least the first segment
\* and any others, sorted by index (generated for route 1).
ApStories ==
  {Null} \cup
  {Some([totalSegmentsEstimate |-> n, outline |-> <<"beat">>,
         segments |-> [k \in 1..Cardinality(I) |-> Segment(SortedSeq(I)[k], 1)]]) :
     n \in {1, MaxApIndex}, I \in {J \in SUBSET (1..MaxApIndex) : 1 \in J}}

AP_Returns ==
  /\ ap.phase = "called"
  /\ ap' = [ap EXCEPT !.phase = "returned",
                      !.result = AppendSegment(ap.prev, Val(ap.seg), Val(ap.seg).index)]
  /\ UNCHANGED <<mainVars, wt, ol, sg>>

AppendInit ==
  /\ MainInit /\ wt = WtIdle /\ ol = OlIdle /\ sg = SgIdle
  /\ \E prev \in ApStories, index \in 1..MaxApIndex :
        ap = [phase |-> "called", prev |-> prev, seg |-> Some(Segment(index, 2)),
              result |-> Null]

AppendNext == AP_Returns

AppendSpec == AppendInit /\ [][AppendNext]_vars

\* ------------------------------------------- generateSegment on its own
\* Everything the remote call can do to a segment request: reject, answer
\* without text, or answer with a text (empty, blank, padded or plain).
SegmentOutcomes ==
  {[kind |-> "error", error |-> e, text |-> Null] : e \in RemoteErrors}
    \cup {[kind |-> "response", error |-> <<>>, text |-> Null]}
    \cup {[kind |-> "response", error |-> <<>>, text |-> Some(t)] :
             t \in SeqsUpTo({" ", "a", "b"}, MaxTextLen)}

SG_Settles ==
  /\ sg.phase = "called"
  /\ sg' = [sg EXCEPT !.phase = "settled",
                      !.result = Some(generateSegment(sg.resp, sg.segmentIndex))]
  /\ UNCHANGED <<mainVars, wt, ol, ap>>

SegmentInit ==
  /\ MainInit /\ wt = WtIdle /\ ol = OlIdle /\ ap = ApIdle
  /\ \E segmentIndex \in 1..MaxSgIndex, resp \in SegmentOutcomes :
        sg = [phase |-> "called", segmentIndex |-> segmentIndex, resp |-> resp,
              result |-> Null]

SegmentNext == SG_Settles

SegmentSpec == SegmentInit /\ [][SegmentNext]_vars

\* ------------------------------------------------------------- claims
\* generateNextSegment invocations past their guard and short of their
\* finally block.
Outstanding == {t \in tasks : t.kind = "GNS"}

\* Every task awaits exactly one remote call (the promise handed to
\* withTimeout); the abandoned ones are counted in orphans.
RemoteCallsInFlight == Cardinality(tasks) + orphans

\* C1: in every reachable state at most one background segment generation
\* is outstanding.
C1_SingleOutstandingGeneration == Cardinality(Outstanding) <= 1

\* C2: in every reachable state at most one call to the remote generative
\* API is in flight, abandoned calls of a timed-out withTimeout included.
C2_SingleRemoteCallInFlight == RemoteCallsInFlight <= 1

\* The runs in which no generation fails or times out and nobody resets.
NextNoFail ==
  \/ \E d \in Durations : HandleGenerateStory(d)
  \/ \E t \in tasks, resp \in OutlineResponses : HGS_OutlineDone(t, resp)
  \/ \E t \in tasks : HGS_TextDone(t)
  \/ \E t \in tasks : HGS_AudioDone(t)
  \/ \E susp \in BOOLEAN : RunEffects(susp)
  \/ \E t \in tasks : GNS_TextDone(t)
  \/ \E t \in tasks : GNS_AudioDone(t)
  \/ \E susp \in BOOLEAN : TogglePlayback(susp)
  \/ PlayResumes
  \/ Tick
  \/ \E s \in live, susp \in BOOLEAN : SourceEnded(s, susp)
  \/ MapsUnavailable

\* React runs the pending effects, and a remote call that does not fail
\* answers; the user and the clock are under no obligation.
LiveSpec ==
  /\ Init /\ [][NextNoFail]_vars
  /\ WF_vars(\E susp \in BOOLEAN : RunEffects(susp))
  /\ WF_vars(\E t \in tasks : GNS_TextDone(t))
  /\ WF_vars(\E t \in tasks : GNS_AudioDone(t))

Buffered ==
  /\ story # Null
  /\ Len(Val(story).segments) >=
       Min(currentPlayingIndex + BUFFER_AHEAD, Val(story).totalSegmentsEstimate)

\* C3: once the story is READY_TO_PLAY, with no failure, timeout or reset,
\* the buffer eventually holds min(currentPlayingIndex + 3, totalSegmentsEstimate)
\* segments, whatever currentPlayingIndex has become.
C3_BufferAhead == [](appState = READY_TO_PLAY => <>Buffered)

\* C3 witness: the player has moved on and the buffer has followed, three
\* segments ahead being fewer than the story has.
C3_Witness ==
  /\ appState = READY_TO_PLAY /\ Buffered /\ ~Dirty
  /\ currentPlayingIndex = 1
  /\ Len(Val(story).segments) = 4

\* A clip of a segment that has been playing for a while is cut and the
\* same segment is started again from offset 0.
RestartsFromTheStart ==
  \E n \in live' \ live :
    /\ n.from = 0 /\ n.pos = 0
    /\ \E s \in live : s.seg = n.seg /\ s.pos > 0

\* C4: currentSegmentIndex changes only by +1 and only in handleSegmentEnd,
\* once for every clip that played to its end; the clip that ends is the one
\* of the segment the player is at (none is skipped), and no segment that has
\* been playing is started again from offset 0.  (Unmounting the player ends
\* the instance the claim is about.)
C4_StrictSequence ==
  [][ /\ (Mounted' /\ currentSegmentIndex' # currentSegmentIndex)
         => (last'.op = "onended" /\ currentSegmentIndex' = currentSegmentIndex + 1)
      /\ last'.op = "onended"
         => /\ currentSegmentIndex' = currentSegmentIndex + 1
            /\ \A s \in live : s.pos >= SEG_DURATION
                                 => s.seg.index = currentSegmentIndex + 1
      /\ Mounted' => ~RestartsFromTheStart ]_vars

\* The segment after the one the player is at, in the story as it is now.
NextInStory == SegAt(Val(story), indexRef + 1)

\* C5: when a clip ends and the next segment is in the current story with
\* its audio, handleSegmentEnd starts it at offset 0 and isBuffering is not
\* set.
C5_GaplessHandOver ==
  [][ (last'.op = "onended" /\ Mounted /\ HasAudio(NextInStory))
        => /\ ~isBuffering'
           /\ \E s \in live' : s.seg = Val(NextInStory) /\ s.pos = 0 /\ s.from = 0 ]_vars

\* The runs of one journey (failures, timeouts and the reset included; the
\* map stays available, which no handler here looks at), with
\* the scheduling the runtime guarantees: React runs pending effects, and a
\* suspended context that was asked to resume does.
JourneyNext ==
  \/ \E d \in Durations : submits = 0 /\ HandleGenerateStory(d)
  \/ \E t \in tasks, resp \in OutlineResponses : HGS_OutlineDone(t, resp)
  \/ \E t \in tasks : HGS_TextDone(t)
  \/ \E t \in tasks : HGS_AudioDone(t)
  \/ \E t \in tasks, msg \in RemoteErrors : HGS_Reject(t, msg)
  \/ \E t \in tasks : HGS_Timeout(t)
  \/ \E susp \in BOOLEAN : RunEffects(susp)
  \/ \E t \in tasks : GNS_TextDone(t)
  \/ \E t \in tasks : GNS_AudioDone(t)
  \/ \E t \in tasks : GNS_Reject(t)
  \/ \E t \in tasks : GNS_Timeout(t)
  \/ HandleReset
  \/ OrphanSettles
  \/ \E susp \in BOOLEAN : TogglePlayback(susp)
  \/ PlayResumes
  \/ Tick
  \/ \E s \in live, susp \in BOOLEAN : SourceEnded(s, susp)

FairSpec ==
  /\ Init /\ [][JourneyNext]_vars
  /\ WF_vars(\E susp \in BOOLEAN : RunEffects(susp))
  /\ WF_vars(PlayResumes)

BufferingWithSegmentReady ==
  /\ Mounted /\ isPlaying /\ isBuffering
  /\ HasAudio(SegAt(Val(story), currentSegmentIndex))

\* The segment the player is at has just been started from offset 0.
CurrentStartedFromZero ==
  /\ Mounted /\ ~isBuffering
  /\ HasAudio(SegAt(Val(story), currentSegmentIndex))
  /\ \E s \in live : /\ s.seg = Val(SegAt(Val(story), currentSegmentIndex))
                     /\ s.from = 0 /\ s.pos = 0

\* C6: a player that is playing and buffering, whose segment at
\* currentSegmentIndex is there with its audio, eventually leaves buffering
\* with that segment started from offset 0.
C6_BufferingResolves == [](BufferingWithSegmentReady => <>CurrentStartedFromZero)

\* C6 witness: the resume effect has just taken the player out of buffering
\* at its second segment.
C6_Witness ==
  /\ last.op = "RunEffects" /\ CurrentStartedFromZero /\ isPlaying
  /\ currentSegmentIndex = 1
  /\ \E s \in live : s.cl.story = Val(story)

\* C7: when the catch block of handleGenerateStory has run (a step of the
\* initial generation rejected or timed out), the app is in PLANNING, story is
\* null, generationError is a message, and it is the timed-out message exactly
\* when the error's message contains "timed out" or "timeout".
C7_FailedInitialGeneration ==
  last.op = "HGS_Catch" =>
    /\ appState = PLANNING
    /\ story = Null
    /\ generationError # NO_ERROR
    /\ generationError = ERR_TIMED_OUT
          <=> (Includes(last.arg[1], "timed out") \/ Includes(last.arg[1], "timeout"))

\* C8: the step in which generateNextSegment fails or times out leaves the
\* story (and everything the user sees of an error) as it was, and every exit
\* of generateNextSegment, the successful one included, leaves isGeneratingRef
\* and isBackgroundGenerating false.
C8_BackgroundFailureContained ==
  [][ /\ last'.op \in {"GNS_Reject", "GNS_Timeout"}
         => /\ story' = story
            /\ appState' = appState /\ generationError' = generationError
      /\ last'.op \in {"GNS_Reject", "GNS_Timeout", "GNS_AudioDone"}
         => /\ ~isGeneratingRef' /\ ~isBackgroundGenerating'
            /\ Cardinality(tasks') = Cardinality(tasks) - 1 ]_vars

\* C8 witness: a generation timed out after another had added the second
\* segment; its remote call is still in flight.
C8_Witness ==
  /\ last.op = "GNS_Timeout" /\ orphans = 1
  /\ story # Null /\ Len(Val(story).segments) = 2
  /\ ~isGeneratingRef /\ ~isBackgroundGenerating

\* What the caller of withTimeout is to receive for an event.
WtOutcome(ev) ==
  IF ev.kind = "timeout" THEN Rejected(wt.errorMsg) ELSE ev

\* C9: withTimeout has settled exactly when one of its events has happened,
\* once, with the first event's outcome: the promise's value or error if the
\* promise settled first, Error(errorMsg) if the timer fired first; nothing
\* that happens later reaches the caller.
C9_WithTimeoutFirstEventWins ==
  /\ wt.events = <<>> => wt.delivered = <<>>
  /\ wt.events # <<>> => wt.delivered = <<WtOutcome(Head(wt.events))>>

\* C9 witness: the timer fired first and the value arrived afterwards.
C9_Witness ==
  /\ Len(wt.events) = 2
  /\ wt.events[1].kind = "timeout" /\ wt.events[2].kind = "fulfilled"
  /\ wt.delivered = <<Rejected(wt.errorMsg)>>

\* C10: generateStoryOutline returns exactly totalSegments entries: those of
\* the array answered, cut after totalSegments or followed by copies of its
\* last entry (of undefined if the array is empty); the placeholder in every
\* position if the call failed or answered no array.
C10_OutlineHasTotalSegments ==
  ol.phase = "returned" =>
    /\ Len(ol.result) = ol.totalSegments
    /\ \A i \in 1..ol.totalSegments :
         ol.result[i] =
           IF ol.resp.kind # "array" THEN OUTLINE_PLACEHOLDER
           ELSE IF i <= Len(ol.resp.arr) THEN ol.resp.arr[i]
           ELSE IF ol.resp.arr = <<>> THEN UNDEFINED
           ELSE ol.resp.arr[Len(ol.resp.arr)]

\* C10 witness: an outline longer than asked for came back and was cut.
C10_Witness ==
  /\ ol.phase = "returned" /\ ol.resp.kind = "array"
  /\ Len(ol.resp.arr) > ol.totalSegments
  /\ ol.result = SubSeq(ol.resp.arr, 1, ol.totalSegments)

\* C11: a story never holds more segments than its estimated total.
C11_SegmentsWithinEstimate ==
  story # Null => Len(Val(story).segments) <= Val(story).totalSegmentsEstimate

\* The generateNextSegment invocations a step starts.
Started == {t \in tasks' : t.kind = "GNS" /\ t.id \notin {u.id : u \in tasks}}

\* C12: a background generation is started only in a state with story and
\* route non-null, appState >= READY_TO_PLAY, fewer segments than
\* currentPlayingIndex + 3 and than the estimated total, and the guard flag
\* false; it asks for the segment after the last one of that state.
C12_GenerationStartConditions ==
  [][ \A t \in Started :
        /\ story # Null /\ route # Null
        /\ appState >= READY_TO_PLAY
        /\ Len(Val(story).segments) < currentPlayingIndex + 3
        /\ Len(Val(story).segments) < Val(story).totalSegmentsEstimate
        /\ ~isGeneratingRef
        /\ t.index = Len(Val(story).segments) + 1 ]_vars

\* C12 witness: the effect has just started the generation of the third
\* segment.
C12_Witness ==
  /\ last = [op |-> "RunEffects", arg |-> <<"generateNextSegment">>]
  /\ isGeneratingRef
  /\ \E t \in tasks : t.kind = "GNS" /\ t.pc = "text" /\ t.index = 3

\* The runs of one journey in which, besides the scheduling of FairSpec, a
\* remote call of the background generation that is made again and again
\* eventually succeeds (it may fail or time out any number of times first).
RetrySpec ==
  /\ Init /\ [][JourneyNext]_vars
  /\ WF_vars(\E susp \in BOOLEAN : RunEffects(susp))
  /\ WF_vars(PlayResumes)
  /\ SF_vars(\E t \in tasks : GNS_TextDone(t))
  /\ SF_vars(\E t \in tasks : GNS_AudioDone(t))

\* The player is playing and buffering at a segment of the story that has
\* not arrived.
AwaitingSegment ==
  /\ Mounted /\ isPlaying /\ isBuffering
  /\ currentSegmentIndex < Val(story).totalSegmentsEstimate
  /\ ~HasAudio(SegAt(Val(story), currentSegmentIndex))

SegmentArrived == Mounted /\ HasAudio(SegAt(Val(story), currentSegmentIndex))

\* C13: a player that is playing and buffering at a segment the story is to
\* have eventually gets that segment, unless the user pauses or ends the
\* journey first.
C13_NoWaitForever ==
  [](AwaitingSegment => <>(SegmentArrived \/ ~Mounted \/ ~isPlaying))

\* The route an invocation works for.
RouteOf(t) == IF t.kind = "HGS" THEN t.details ELSE t.route

\* The invocation was started before a handleReset or before the newest
\* handleGenerateStory.
Stale(t) == route = Null \/ Val(route).id # RouteOf(t).id

\* The invocations that return in a step.
Returned == {t \in tasks : t.id \notin {u.id : u \in tasks'}}

SegmentsOfCurrentRoute ==
  (story # Null /\ route # Null) =>
    \A i \in 1..Len(Val(story).segments) : Val(story).segments[i].rid = Val(route).id

\* C14: an invocation of handleGenerateStory or generateNextSegment that was
\* in flight at a handleReset, or when a newer handleGenerateStory started,
\* changes neither story nor appState nor the guard flag when it returns,
\* and every segment of the story was generated for the current route.
C14_NoStaleResults ==
  [][ /\ \A t \in Returned :
           Stale(t) => /\ story' = story
                       /\ appState' = appState
                       /\ isGeneratingRef' = isGeneratingRef
      /\ SegmentsOfCurrentRoute' ]_vars

\* C15: appState >= READY_TO_PLAY only with route and story non-null; and
\* while no route is set (from a handleReset to the next submission) the app
\* is in PLANNING with story null.
C15_ReadyHasRouteAndStory ==
  /\ appState >= READY_TO_PLAY => (route # Null /\ story # Null)
  /\ route = Null => (appState = PLANNING /\ story = Null)

\* C16: handleReset leaves appState = PLANNING, route, story and
\* generationError null, currentPlayingIndex = 0, isGeneratingRef and
\* isBackgroundGenerating false, and mapApiAvailable and scriptError as they
\* were.
C16_ResetState ==
  [][ last'.op = "handleReset" =>
        /\ appState' = PLANNING
        /\ route' = Null /\ story' = Null
        /\ currentPlayingIndex' = 0
        /\ generationError' = NO_ERROR
        /\ ~isGeneratingRef' /\ ~isBackgroundGenerating'
        /\ mapApiAvailable' = mapApiAvailable
        /\ scriptError' = scriptError ]_vars

\* C16 witness: the journey was ended with the map unavailable and a
\* background generation in flight.
C16_Witness ==
  /\ last.op = "handleReset" /\ ~mapApiAvailable
  /\ appState = PLANNING /\ story = Null /\ currentPlayingIndex = 0
  /\ \E t \in tasks : t.kind = "GNS"

\* C17: the segment at position k of story.segments (counted from 0) has
\* index k + 1: sorted, without duplicates, contiguous from 1.
C17_SegmentsContiguous ==
  story # Null =>
    \A k \in 0..(Len(Val(story).segments) - 1) :
      Val(SegAt(Val(story), k)).index = k + 1

\* s with x put in at some position, nothing else touched.
InsertedOnce(s, x, r) ==
  \E k \in 1..(Len(s) + 1) : r = SubSeq(s, 1, k - 1) \o <<x>> \o SubSeq(s, k, Len(s))

\* C18: the setStory updater returns the story unchanged if it already has
\* a segment of that index; otherwise the result is the story with exactly
\* that segment added, every other segment and field as before.
C18_AppendIdempotent ==
  (ap.phase = "returned" /\ ap.prev # Null) =>
    IF \E i \in 1..Len(Val(ap.prev).segments) :
         Val(ap.prev).segments[i].index = Val(ap.seg).index
    THEN ap.result = ap.prev
    ELSE /\ ap.result # Null
         /\ Val(ap.result).outline = Val(ap.prev).outline
         /\ Val(ap.result).totalSegmentsEstimate = Val(ap.prev).totalSegmentsEstimate
         /\ InsertedOnce(Val(ap.prev).segments, Val(ap.seg), Val(ap.result).segments)

\* C18 witness: a segment with index 2 arrived for a story that had one (of
\* another generation) and the story came back as it was.
C18_Witness ==
  /\ ap.phase = "returned" /\ ap.prev # Null
  /\ Val(ap.seg).index = 2
  /\ \E i \in 1..Len(Val(ap.prev).segments) :
        /\ Val(ap.prev).segments[i].index = 2
        /\ Val(ap.prev).segments[i] # Val(ap.seg)
  /\ ap.result = ap.prev

\* C19: at most one audio source is playing.
C19_OneAudioSource == Cardinality(live) <= 1

\* C19 witness: two playSegment calls were suspended on resume() and have
\* both run; one source plays.
C19_Witness ==
  /\ last.op = "PlayResumes" /\ last.arg = <<"overlapping">>
  /\ Cardinality(live) = 1
  /\ \E s \in live : s.sid = sourceRef

\* C20: while isPlaying is false no audio source is playing.
C20_SilentWhilePaused == (Mounted /\ ~isPlaying) => live = {}

\* The clip that sourceRef names is playing.
PlayingClip(s) == s \in live /\ s.sid = sourceRef

\* C21: pausing a clip that is playing (not buffering) records
\* currentTime - startTime, which is the clip's position, and stops it; the
\* offset stays while paused; resuming starts the segment at that offset with
\* currentTime - startTime equal to it; and while a clip plays,
\* currentTime - startTime is its position, so the end-of-clip test does not
\* see the time spent paused.
C21_PauseResumeRoundTrip ==
  [][ /\ \A s \in live :
           (last'.op = "togglePlayback" /\ isPlaying /\ ~isBuffering /\ PlayingClip(s))
             => /\ segmentOffsetRef' = sinceStart
                /\ segmentOffsetRef' = s.pos
                /\ ~isPlaying' /\ live' = {}
      /\ (Mounted /\ Mounted' /\ ~isPlaying /\ ~isPlaying' /\ live = {} /\ plays = <<>>)
           => /\ segmentOffsetRef' = segmentOffsetRef
              /\ currentSegmentIndex' = currentSegmentIndex
      /\ (last'.op = "togglePlayback" /\ ~isPlaying /\ audioCtx = "running"
             /\ HasAudio(SegAt(Val(story), currentSegmentIndex)))
           => /\ isPlaying' /\ ~isBuffering'
              /\ sinceStart' = segmentOffsetRef
              /\ \E n \in live' :
                    /\ n.sid = sourceRef'
                    /\ n.seg = Val(SegAt(Val(story), currentSegmentIndex))
                    /\ n.from = segmentOffsetRef /\ n.pos = segmentOffsetRef
      /\ \A n \in live' : n.sid = sourceRef' => n.pos = sinceStart' ]_vars

\* C21 witness: a clip paused half-way has just been resumed there.
C21_Witness ==
  /\ last.op = "togglePlayback" /\ isPlaying /\ ~isBuffering
  /\ segmentOffsetRef = 1 /\ sinceStart = 1
  /\ \E s \in live : s.sid = sourceRef /\ s.from = 1 /\ s.pos = 1

Blank(t) == \A i \in 1..Len(t) : t[i] \in Whitespace

\* C22: when the remote call answers, generateSegment fulfils with a segment
\* whose index is the requested segmentIndex, whose audioBuffer is null and
\* whose text is not empty: the placeholder when the response has no text or
\* an empty (or blank) one, the response's text without the whitespace around
\* it otherwise; when the remote call fails it rejects, with that error, and
\* yields no segment.
C22_GenerateSegmentResult ==
  sg.phase = "settled" =>
    LET r == Val(sg.result)
    IN  IF sg.resp.kind = "error"
        THEN r.kind = "rejected" /\ r.payload = sg.resp.error
        ELSE /\ r.kind = "fulfilled"
             /\ r.payload.index = sg.segmentIndex
             /\ r.payload.audioBuffer = Null
             /\ r.payload.text # <<>>
             /\ Head(r.payload.text) \notin Whitespace
             /\ IF sg.resp.text = Null \/ Blank(Val(sg.resp.text))
                THEN r.payload.text = SEGMENT_PLACEHOLDER
                ELSE \E i, j \in 1..Len(Val(sg.resp.text)) :
                       /\ r.payload.text = SubSeq(Val(sg.resp.text), i, j)
                       /\ Blank(SubSeq(Val(sg.resp.text), 1, i - 1))
                       /\ Blank(SubSeq(Val(sg.resp.text), j + 1, Len(Val(sg.resp.text))))

\* C22 witness: the response's text was nothing but whitespace and the
\* segment came back with the placeholder.
C22_Witness ==
  /\ sg.phase = "settled" /\ sg.resp.kind = "response"
  /\ sg.resp.text # Null /\ Val(sg.resp.text) # <<>> /\ Blank(Val(sg.resp.text))
  /\ Val(sg.result).kind = "fulfilled"
  /\ Val(sg.result).payload.text = SEGMENT_PLACEHOLDER
  /\ Val(sg.result).payload.index = sg.segmentIndex

====
